---- MODULE Spec2Model ----
(***************************************************************************)
(* Model of homework.py: a bot that polls the homework-status API and      *)
(* forwards status changes to a Telegram chat.                             *)
(*                                                                         *)
(* Python values are tagged records [t, v]; exceptions are records         *)
(* [type, arg].  TLA+ strings are ASCII, so the Russian texts of the       *)
(* source are written in Latin transliteration.                            *)
(***************************************************************************)
EXTENDS Integers, Sequences, FiniteSets, TLC

VARIABLES
    PRACTICUM_TOKEN,    \* TRUE iff getenv gave a non-empty value (line 17)
    TELEGRAM_TOKEN,     \* line 18
    TELEGRAM_CHAT_ID,   \* line 19
    pc,                 \* position of main
    current_timestamp,  \* the cursor, main's local (lines 152, 161)
    net,                \* what the network did for the request of this cycle
    answer,             \* outcome of the call of line 160: return or raise
    response,           \* main's local `response`
    error,              \* the exception main's handler caught in this cycle
    started,            \* the value of current_timestamp when the cycle began
    sent,               \* calls of bot.send_message in this cycle (or at startup)
    log,                \* log records of this cycle (or of startup)
    exit_status,        \* what the process ended with, once it has ended
    polled,             \* TRUE once requests.get has been called
    slept,              \* seconds slept since the last request
    uncaught            \* the exception that is leaving main, if any

vars == <<PRACTICUM_TOKEN, TELEGRAM_TOKEN, TELEGRAM_CHAT_ID, pc,
          current_timestamp, net, answer, response, error, started, sent,
          log, exit_status, polled, slept, uncaught>>

-----------------------------------------------------------------------------
(* Bounds of the model *)

\* timestamps (process-start time, server current_date) range over 0..MaxTime
MaxTime == 2
\* the homeworks list of a payload holds at most MaxItems items
MaxItems == 2

-----------------------------------------------------------------------------
(* Python values *)

None == [t |-> "null"]
JInt(n) == [t |-> "int", v |-> n]
JStr(s) == [t |-> "str", v |-> s]
JList(s) == [t |-> "list", v |-> s]
JDict(f) == [t |-> "dict", v |-> f]

\* marks a key that a dict does not hold; never a value itself
Absent == [t |-> "absent"]

\* a local variable that holds nothing yet
Unset == [t |-> "unset"]

EmptyDict == JDict(<<>>)

\* dict.get(key): the value, or None when the key is missing
Get(d, key) == IF key \in DOMAIN d.v THEN d.v[key] ELSE None

\* Python truth value testing, as `not x` and `if x` use it
Truthy(x) ==
    CASE x.t = "null" -> FALSE
      [] x.t = "int"  -> x.v # 0
      [] x.t = "str"  -> x.v # ""
      [] x.t = "list" -> Len(x.v) > 0
      [] x.t = "dict" -> DOMAIN x.v # {}

\* type(x).__name__
TypeName(x) ==
    CASE x.t = "null" -> "NoneType"
      [] x.t = "int"  -> "int"
      [] x.t = "str"  -> "str"
      [] x.t = "list" -> "list"
      [] x.t = "dict" -> "dict"

\* list and dict are unhashable: they cannot be looked up in a dict
Hashable(x) == x.t \notin {"list", "dict"}

\* str(x) as an f-string substitutes it, for the values a name takes here
Format(x) ==
    CASE x.t = "str"  -> x.v
      [] x.t = "int"  -> ToString(x.v)
      [] x.t = "null" -> "None"
      [] OTHER        -> "<" \o TypeName(x) \o ">"

-----------------------------------------------------------------------------
(* Exceptions *)

NoError == [type |-> "none", arg |-> ""]
Raise(type, arg) == [type |-> type, arg |-> arg]

\* str(error): KeyError shows the repr of its argument, the others the argument
Str(e) == IF e.type = "KeyError" THEN "'" \o e.arg \o "'" ELSE e.arg

\* x.get on a value that is no dict
NoGet(x) ==
    Raise("AttributeError", "'" \o TypeName(x) \o "' object has no attribute 'get'")

\* a function's outcome: the exception it raised (NoError: it returned
\* `value`) and the log records it wrote
Return(value, records) == [exc |-> NoError, value |-> value, log |-> records]
Raised(exc, records) == [exc |-> exc, value |-> Unset, log |-> records]

Rec(level, text) == [level |-> level, text |-> text]

-----------------------------------------------------------------------------
(* Module constants *)

RETRY_PERIOD == 600

\* HTTPStatus.OK
OK == 200

HOMEWORK_VERDICTS ==
    [approved  |-> "Rabota proverena: revyueru vsyo ponravilos. Ura!",
     reviewing |-> "Rabota vzyata na proverku revyuerom.",
     rejected  |-> "Rabota proverena: u revyuera est zamechaniya."]

-----------------------------------------------------------------------------
(* send_message *)

\* bot.send_message cannot deliver without a bot token and a chat id
CanDeliver == TELEGRAM_TOKEN /\ TELEGRAM_CHAT_ID

Deliveries == IF CanDeliver THEN {"ok", "fail"} ELSE {"fail"}

\* the mutation of send_message that lets the delivery error out
send_message_propagating(message, delivery) ==
    [exc  |-> IF delivery = "ok" THEN NoError
              ELSE Raise("TelegramError", "Bad Request"),
     log  |-> IF delivery = "ok"
              THEN <<Rec("DEBUG", "Uspeshnaya otpravka soobshcheniya  " \o message)>>
              ELSE << >>,
     sent |-> <<[text |-> message, delivered |-> delivery = "ok"]>>]

\* one call of bot.send_message, whose outcome is `delivery`; an error of the
\* client is caught and logged, so the function always returns
send_message(message, delivery) ==
    [exc  |-> NoError,
     log  |-> IF delivery = "ok"
              THEN <<Rec("DEBUG", "Uspeshnaya otpravka soobshcheniya  " \o message)>>
              ELSE <<Rec("ERROR", "Sboy pri otpravke soobshcheniya Bad Request")>>,
     sent |-> <<[text |-> message, delivered |-> delivery = "ok"]>>]

-----------------------------------------------------------------------------
(* get_api_answer *)

Undecodable == [t |-> "garbage"]

HEADERS_OF_RESPONSE == "{'Server': 'nginx'}"

\* the request failed: requests.get raised `exc`, and there is no response
Failed(exc) ==
    [exc |-> exc, status_code |-> 0, headers |-> "", body |-> Unset,
     params |-> Unset]

\* the request got a response
Responded(status_code, body) ==
    [exc |-> NoError, status_code |-> status_code,
     headers |-> HEADERS_OF_RESPONSE, body |-> body, params |-> Unset]

NoRequest == Failed(Raise("norequest", ""))

UnboundHomeworks ==
    Raise("UnboundLocalError",
          "local variable 'homeworks' referenced before assignment")

\* the query of the request
\* the mutation of Params that asks for everything since the epoch
Params_from_epoch(timestamp) == [from_date |-> JInt(0)]

Params(timestamp) == [from_date |-> timestamp]

\* the mutation of get_api_answer that refuses the server's errors only
get_api_answer_any_status(n) ==
    LET begin == <<Rec("INFO", "Nachalo zaprosa k API")>> IN
    CASE n.exc.type = "ConnectionError" ->
           Raised(UnboundHomeworks,
                  begin \o <<Rec("ERROR", "Proizoshla oshibka podklyucheniya: "
                                          \o n.exc.arg)>>)
      [] n.exc.type = "URLRequired" ->
           Raised(UnboundHomeworks, begin)
      [] n.exc.type \notin {"none", "ConnectionError", "URLRequired"} ->
           Raised(UnboundHomeworks,
                  begin \o <<Rec("ERROR",
                                 "Oshibka pri zaprose k API Praktikum.Domashka: "
                                 \o n.exc.arg)>>)
      [] OTHER ->
           IF n.status_code >= 500
           THEN Raised(Raise("StatusCodeError",
                             "Kod HTTP otveta pri zaprose k API - "
                             \o ToString(n.status_code)
                             \o " Headers pri zaprose k API - \""
                             \o n.headers \o "\""),
                       begin)
           ELSE IF n.body = Undecodable
           THEN Raised(Raise("JSONError",
                             "Oshibka pri preobrazovanii otveta iz JSON k tipam "
                             \o "dannykh Python: Expecting value"),
                       begin)
           ELSE Return(n.body,
                       begin \o <<Rec("INFO", "Zaprosa k API osushchestvlen uspeshno")>>)


\* n is what the network did.  The three handlers of the request's failure
\* log and fall through; the local `homeworks` is then unbound where the
\* handler of URLRequired and line 72 read it.
get_api_answer(n) ==
    LET begin == <<Rec("INFO", "Nachalo zaprosa k API")>> IN
    CASE n.exc.type = "ConnectionError" ->
           Raised(UnboundHomeworks,
                  begin \o <<Rec("ERROR", "Proizoshla oshibka podklyucheniya: "
                                          \o n.exc.arg)>>)
      [] n.exc.type = "URLRequired" ->
           Raised(UnboundHomeworks, begin)
      [] n.exc.type \notin {"none", "ConnectionError", "URLRequired"} ->
           Raised(UnboundHomeworks,
                  begin \o <<Rec("ERROR",
                                 "Oshibka pri zaprose k API Praktikum.Domashka: "
                                 \o n.exc.arg)>>)
      [] OTHER ->
           IF n.status_code # OK
           THEN Raised(Raise("StatusCodeError",
                             "Kod HTTP otveta pri zaprose k API - "
                             \o ToString(n.status_code)
                             \o " Headers pri zaprose k API - \""
                             \o n.headers \o "\""),
                       begin)
           ELSE IF n.body = Undecodable
           THEN Raised(Raise("JSONError",
                             "Oshibka pri preobrazovanii otveta iz JSON k tipam "
                             \o "dannykh Python: Expecting value"),
                       begin)
           ELSE Return(n.body,
                       begin \o <<Rec("INFO", "Zaprosa k API osushchestvlen uspeshno")>>)

-----------------------------------------------------------------------------
(* check_response *)

\* the mutation of check_response that looks for "homeworks" first
check_response_homeworks_first(resp) ==
    LET begin == <<Rec("INFO", "Proverka otveta API na korrektnost")>> IN
    IF ~Truthy(resp)
    THEN Raised(Raise("EmptyDictInResponseError",
                      "Otvet ot API soderzhit pustoy slovar"), begin)
    ELSE IF resp.t # "dict"
    THEN Raised(Raise("TypeError", "Otvet ot API ne yavlyaetsya slovarem"), begin)
    ELSE IF Get(resp, "homeworks") = None
    THEN Raised(Raise("KeyError",
                      "Otvet ot API ne soderzhit klyuch \"homeworks\""), begin)
    ELSE IF Get(resp, "current_date") = None
    THEN Raised(Raise("KeyError",
                      "Otvet ot API ne soderzhit klyuch \"current_date\""), begin)
    ELSE IF Get(resp, "homeworks").t # "list"
    THEN Raised(Raise("TypeError",
                      "Dannye v otvete API po klyuchu \"homeworks\" ne "
                      \o "yavlyayutsya slovarem"), begin)
    ELSE Return(Get(resp, "homeworks"),
                begin \o <<Rec("INFO", "Otvet API korrekten")>>)

check_response(resp) ==
    LET begin == <<Rec("INFO", "Proverka otveta API na korrektnost")>> IN
    IF ~Truthy(resp)
    THEN Raised(Raise("EmptyDictInResponseError",
                      "Otvet ot API soderzhit pustoy slovar"), begin)
    ELSE IF resp.t # "dict"
    THEN Raised(Raise("TypeError", "Otvet ot API ne yavlyaetsya slovarem"), begin)
    ELSE IF Get(resp, "current_date") = None
    THEN Raised(Raise("KeyError",
                      "Otvet ot API ne soderzhit klyuch \"current_date\""), begin)
    ELSE IF Get(resp, "homeworks") = None
    THEN Raised(Raise("KeyError",
                      "Otvet ot API ne soderzhit klyuch \"homeworks\""), begin)
    ELSE IF Get(resp, "homeworks").t # "list"
    THEN Raised(Raise("TypeError",
                      "Dannye v otvete API po klyuchu \"homeworks\" ne "
                      \o "yavlyayutsya slovarem"), begin)
    ELSE Return(Get(resp, "homeworks"),
                begin \o <<Rec("INFO", "Otvet API korrekten")>>)

-----------------------------------------------------------------------------
(* parse_status *)

\* HOMEWORK_VERDICTS.get(status), for a hashable status
VerdictOf(status) ==
    IF status.t = "str" /\ status.v \in DOMAIN HOMEWORK_VERDICTS
    THEN JStr(HOMEWORK_VERDICTS[status.v])
    ELSE None

\* the mutation of the f-string that swaps the name and the phrase
StatusMessage_verdict_first(homework_name, verdict) ==
    "Izmenilsya status proverki raboty \"" \o Format(verdict)
    \o "\". " \o Format(homework_name)

\* the f-string of lines 139-141
StatusMessage(homework_name, verdict) ==
    "Izmenilsya status proverki raboty \"" \o Format(homework_name)
    \o "\". " \o Format(verdict)

parse_status(homework) ==
    IF homework.t # "dict"
    THEN Raised(NoGet(homework), << >>)
    ELSE
    LET homework_name == Get(homework, "homework_name")
        homework_status == Get(homework, "status")
    IN  IF ~Hashable(homework_status)
        THEN Raised(Raise("TypeError",
                          "unhashable type: '" \o TypeName(homework_status) \o "'"),
                    << >>)
        ELSE
        LET verdict == VerdictOf(homework_status) IN
        IF homework_name = None
        THEN Raised(Raise("KeyError",
                          "Slovar s domashney rabotoy ne soderzhit klyuch "
                          \o "\"homework_name\""), << >>)
        ELSE IF homework_status = None
        THEN Raised(Raise("KeyError",
                          "Slovar s domashney rabotoy ne soderzhit klyuch "
                          \o "\"status\""), << >>)
        ELSE IF verdict = None
        THEN Raised(Raise("KeyError",
                          "Nedokumentirovannyy status domashney raboty"), << >>)
        ELSE Return(JStr(StatusMessage(homework_name, verdict)),
                    <<Rec("INFO", "Status proverki raboty poluchen")>>)

-----------------------------------------------------------------------------
(* check_tokens *)

check_tokens == PRACTICUM_TOKEN /\ TELEGRAM_TOKEN /\ TELEGRAM_CHAT_ID

-----------------------------------------------------------------------------
(* What the server and the network can do *)

Names == {Absent, JStr("hw1"), JStr("hw2")}

Statuses == {Absent, JStr("approved"), JStr("reviewing"), JStr("rejected"),
             JStr("expelled"), JList(<<JStr("approved")>>)}

\* a dict of the keys whose value is not Absent
Item(name, status) ==
    JDict([k \in {x \in {"homework_name", "status"} :
                    (IF x = "status" THEN status ELSE name) # Absent}
            |-> IF k = "status" THEN status ELSE name])

Payload(date, works) ==
    JDict([k \in {x \in {"current_date", "homeworks"} :
                    (IF x = "homeworks" THEN works ELSE date) # Absent}
            |-> IF k = "homeworks" THEN works ELSE date])

\* an item as the API sends it, with more keys than the two that are read
FullItem ==
    JDict([homework_name |-> JStr("hw1"), status |-> JStr("reviewing"),
           lesson_name |-> JStr("hw2"), reviewer_comment |-> JStr("approved")])

\* the first item of a list: every shape of item, and a value that is no dict
Items == {Item(n, s) : n \in Names, s \in Statuses} \cup {FullItem, JStr("hw1")}

\* the items after the first
TailItems == {Item(JStr("hw2"), JStr("rejected")),
              Item(JStr("hw2"), JStr("expelled")),
              JInt(0)}

RECURSIVE SeqsUpTo(_, _)
SeqsUpTo(S, n) ==
    IF n <= 0 THEN {<< >>}
    ELSE LET shorter == SeqsUpTo(S, n - 1)
         IN  shorter \cup {Append(q, x) : q \in shorter, x \in S}

HomeworkLists ==
    {JList(<< >>)} \cup
    {JList(<<first>> \o rest) :
        first \in Items, rest \in SeqsUpTo(TailItems, MaxItems - 1)}

Dates == {Absent, None, JStr("soon")} \cup {JInt(n) : n \in 0..MaxTime}

Works == {Absent, None, EmptyDict, JStr("hw1")} \cup HomeworkLists

\* what a body can decode to: an object, or JSON that is no object
Payloads ==
    {Payload(d, w) : d \in Dates, w \in Works}
    \cup {None, JInt(0), JInt(7), JStr(""), JList(<< >>),
          JList(<<Item(JStr("hw1"), JStr("approved"))>>)}

Networks ==
    {Failed(Raise("ConnectionError", "Connection refused")),
     Failed(Raise("URLRequired", "A valid URL is required")),
     Failed(Raise("Timeout", "Read timed out"))}
    \cup {Responded(c, Undecodable) : c \in {OK, 404, 500}}
    \cup {Responded(c, Payload(JInt(0), JList(<< >>))) : c \in {404, 500}}
    \cup {Responded(OK, p) : p \in Payloads}

-----------------------------------------------------------------------------
(* main *)

Running == [t |-> "running"]
Exit(code, text) == [t |-> "exit", code |-> code, stderr |-> text]

Init ==
    /\ PRACTICUM_TOKEN \in BOOLEAN
    /\ TELEGRAM_TOKEN \in BOOLEAN
    /\ TELEGRAM_CHAT_ID \in BOOLEAN
    /\ pc = "start"
    /\ current_timestamp = Unset
    /\ net = NoRequest
    /\ answer = Raised(NoError, << >>)
    /\ response = Unset
    /\ error = NoError
    /\ started = Unset
    /\ sent = << >>
    /\ log = << >>
    /\ exit_status = Running
    /\ polled = FALSE
    /\ slept = 0
    /\ uncaught = NoError

\* telegram.Bot(token): the client library refuses a missing token in the
\* versions that check it, and the constructor is not part of this
\* repository, so both outcomes are kept
BotOutcomes == IF TELEGRAM_TOKEN THEN {"bot"} ELSE {"bot", "raise"}

MISSING == "Otsutvuet (net dostupa) k peremennoy okruzheniya"

\* lines 151-157: up to the loop, or to the end of the process
Startup ==
    /\ pc = "start"
    /\ \E made \in BotOutcomes, now \in 0..MaxTime, delivery \in Deliveries :
         IF made = "raise"
         THEN /\ pc' = "crashed"
              /\ uncaught' = Raise("InvalidToken", "Invalid token")
              /\ exit_status' = Exit(1, "InvalidToken")
              /\ UNCHANGED <<current_timestamp, sent, log>>
         ELSE /\ current_timestamp' = JInt(now)
              /\ UNCHANGED uncaught
              /\ IF ~check_tokens
                 THEN LET s == send_message(MISSING, delivery) IN
                      /\ log' = <<Rec("CRITICAL", MISSING)>> \o s.log
                      /\ sent' = s.sent
                      /\ pc' = "exited"
                      /\ exit_status' = Exit(1, MISSING)
                 ELSE /\ pc' = "poll"
                      /\ UNCHANGED <<sent, log, exit_status>>
    /\ UNCHANGED <<PRACTICUM_TOKEN, TELEGRAM_TOKEN, TELEGRAM_CHAT_ID, net,
                   answer, response, error, started, polled, slept>>

\* line 160: the call of get_api_answer
Poll ==
    /\ pc = "poll"
    /\ \E n \in Networks :
         /\ net' = [n EXCEPT !.params = Params(current_timestamp)]
         /\ answer' = get_api_answer(n)
         /\ log' = get_api_answer(n).log
    /\ started' = current_timestamp
    /\ polled' = TRUE
    /\ slept' = 0
    /\ pc' = "handle"
    /\ UNCHANGED <<PRACTICUM_TOKEN, TELEGRAM_TOKEN, TELEGRAM_CHAT_ID,
                   current_timestamp, response, error, sent, exit_status,
                   uncaught>>

\* the mutation of the handler that takes the errors of validation only
except_KeyError(exc) == exc.type \in {"KeyError", "TypeError"}

\* `except Exception` of line 168 takes every exception raised below it
except_Exception(exc) == exc # NoError

\* the mutation of line 163 that wants more than one item
HasNew_several(works) == Len(works.v) > 1

\* `if homeworks:` of line 163
HasNew(works) == Truthy(works)

\* the mutation of line 164 that takes the last item
LastOf(works) == works.v[Len(works.v)]

\* `homeworks[0]` of line 164
FirstOf(works) == works.v[1]

\* the mutation of the try block that moves the cursor once check_response
\* has returned
try_block_validate_first(ans, cursor, delivery) ==
    LET nothing == [exc |-> NoError, cursor |-> cursor, response |-> Unset,
                    sent |-> << >>, log |-> << >>]
    IN
    IF ans.exc # NoError
    THEN [nothing EXCEPT !.exc = ans.exc]
    ELSE
    LET resp == ans.value
        got == [nothing EXCEPT !.response = resp]
    IN
    IF resp.t # "dict"
    THEN [got EXCEPT !.exc = NoGet(resp)]
    ELSE
    LET moved == [got EXCEPT !.cursor = Get(resp, "current_date")]
        checked == check_response(resp)
    IN
    IF checked.exc # NoError
    THEN [got EXCEPT !.exc = checked.exc, !.log = checked.log]
    ELSE IF ~HasNew(checked.value)
    THEN [moved EXCEPT !.log = checked.log \o
            <<Rec("DEBUG", "V otvete otstutvuyut novye statusy proverki")>>]
    ELSE
    LET parsed == parse_status(FirstOf(checked.value)) IN
    IF parsed.exc # NoError
    THEN [moved EXCEPT !.exc = parsed.exc, !.log = checked.log \o parsed.log]
    ELSE
    LET s == send_message(parsed.value.v, delivery) IN
    [moved EXCEPT !.exc = s.exc, !.sent = s.sent,
                  !.log = checked.log \o parsed.log \o s.log]


\* lines 160-167, from the outcome of get_api_answer: the exception that
\* leaves the try block (or NoError), and what the block did
try_block(ans, cursor, delivery) ==
    LET nothing == [exc |-> NoError, cursor |-> cursor, response |-> Unset,
                    sent |-> << >>, log |-> << >>]
    IN
    IF ans.exc # NoError
    THEN [nothing EXCEPT !.exc = ans.exc]
    ELSE
    LET resp == ans.value
        got == [nothing EXCEPT !.response = resp]
    IN
    IF resp.t # "dict"
    THEN [got EXCEPT !.exc = NoGet(resp)]
    ELSE
    LET moved == [got EXCEPT !.cursor = Get(resp, "current_date")]
        checked == check_response(resp)
    IN
    IF checked.exc # NoError
    THEN [moved EXCEPT !.exc = checked.exc, !.log = checked.log]
    ELSE IF ~HasNew(checked.value)
    THEN [moved EXCEPT !.log = checked.log \o
            <<Rec("DEBUG", "V otvete otstutvuyut novye statusy proverki")>>]
    ELSE
    LET parsed == parse_status(FirstOf(checked.value)) IN
    IF parsed.exc # NoError
    THEN [moved EXCEPT !.exc = parsed.exc, !.log = checked.log \o parsed.log]
    ELSE
    LET s == send_message(parsed.value.v, delivery) IN
    [moved EXCEPT !.exc = s.exc, !.sent = s.sent,
                  !.log = checked.log \o parsed.log \o s.log]

FAILURE == "Sboy v rabote programmy: "

\* lines 161-173: the rest of the try block, the handler and the log of
\* `finally`
Handle ==
    /\ pc = "handle"
    /\ \E first \in Deliveries, second \in Deliveries :
         LET t == try_block(answer, current_timestamp, first)
             waiting == <<Rec("INFO", "Perekhod v rezhim ozhidaniya: "
                                      \o ToString(RETRY_PERIOD) \o " s")>>
         IN
         /\ current_timestamp' = t.cursor
         /\ response' = t.response
         /\ IF t.exc = NoError
            THEN /\ error' = NoError
                 /\ sent' = t.sent
                 /\ log' = log \o t.log \o waiting
                 /\ uncaught' = NoError
            ELSE IF except_Exception(t.exc)
            THEN LET s == send_message(FAILURE \o Str(t.exc), second) IN
                 /\ error' = t.exc
                 /\ sent' = t.sent \o s.sent
                 /\ log' = log \o t.log \o <<Rec("ERROR", Str(t.exc))>>
                               \o s.log \o waiting
                 /\ uncaught' = s.exc
            ELSE /\ error' = NoError
                 /\ sent' = t.sent
                 /\ log' = log \o t.log \o waiting
                 /\ uncaught' = t.exc
    /\ pc' = "sleep"
    /\ UNCHANGED <<PRACTICUM_TOKEN, TELEGRAM_TOKEN, TELEGRAM_CHAT_ID, net,
                   answer, started, exit_status, polled, slept>>

\* the mutation of `finally` into `else`: the sleep of a cycle without error
else_sleeps(exc) == IF exc = NoError THEN RETRY_PERIOD ELSE 0

\* lines 172-174: `finally` sleeps whether or not the cycle raised
finally_sleeps(exc) == RETRY_PERIOD

\* line 174: time.sleep(RETRY_PERIOD) returns and the loop starts over; the
\* locals and the records of the cycle are dead from here on and are forgotten
Sleep ==
    /\ pc = "sleep"
    /\ slept' = slept + finally_sleeps(error)
    /\ IF uncaught # NoError
       THEN /\ pc' = "crashed"
            /\ exit_status' = Exit(1, uncaught.type)
            /\ UNCHANGED <<net, answer, response, error, started, sent, log>>
       ELSE /\ pc' = "poll"
            /\ net' = NoRequest
            /\ answer' = Raised(NoError, << >>)
            /\ response' = Unset
            /\ error' = NoError
            /\ started' = Unset
            /\ sent' = << >>
            /\ log' = << >>
            /\ UNCHANGED exit_status
    /\ UNCHANGED <<PRACTICUM_TOKEN, TELEGRAM_TOKEN, TELEGRAM_CHAT_ID,
                   current_timestamp, polled, uncaught>>

Next == Startup \/ Poll \/ Handle \/ Sleep

Spec == Init /\ [][Next]_vars

\* the process is scheduled, the request and the delivery end, and the sleep
\* returns: a step of main that can be taken is taken
\* Handle can be taken exactly when pc = "handle" (it has a branch for every
\* outcome), so this is WF_vars(Handle) with ENABLED <<Handle>>_vars written
\* as that condition
HandleEnds == []<>(pc # "handle") \/ []<><<Handle>>_vars

FairSpec ==
    Spec /\ WF_vars(Startup) /\ WF_vars(Poll) /\ HandleEnds /\ WF_vars(Sleep)

-----------------------------------------------------------------------------
(* check_response and parse_status on their own: one call on one argument *)

Arguments == Payloads \cup Items \cup TailItems

InitFunctions ==
    /\ PRACTICUM_TOKEN = TRUE
    /\ TELEGRAM_TOKEN = TRUE
    /\ TELEGRAM_CHAT_ID = TRUE
    /\ pc = "call"
    /\ response \in Arguments
    /\ current_timestamp = Unset
    /\ net = NoRequest
    /\ answer = Raised(NoError, << >>)
    /\ error = NoError
    /\ started = Unset
    /\ sent = << >>
    /\ log = << >>
    /\ exit_status = Running
    /\ polled = FALSE
    /\ slept = 0
    /\ uncaught = NoError

CallCheckResponse ==
    /\ pc = "call"
    /\ answer' = check_response(response)
    /\ log' = check_response(response).log
    /\ pc' = "checked"
    /\ UNCHANGED <<PRACTICUM_TOKEN, TELEGRAM_TOKEN, TELEGRAM_CHAT_ID,
                   current_timestamp, net, response, error, started, sent,
                   exit_status, polled, slept, uncaught>>

CallParseStatus ==
    /\ pc = "call"
    /\ answer' = parse_status(response)
    /\ log' = parse_status(response).log
    /\ pc' = "parsed"
    /\ UNCHANGED <<PRACTICUM_TOKEN, TELEGRAM_TOKEN, TELEGRAM_CHAT_ID,
                   current_timestamp, net, response, error, started, sent,
                   exit_status, polled, slept, uncaught>>

NextFunctions == CallCheckResponse \/ CallParseStatus

SpecFunctions == InitFunctions /\ [][NextFunctions]_vars

-----------------------------------------------------------------------------
(* The claims *)

Range(q) == {q[i] : i \in 1..Len(q)}

Known == {"approved", "reviewing", "rejected"}

\* the call of get_api_answer of this cycle returned a payload
Fetched == pc \in {"handle", "sleep"} /\ answer.exc = NoError

\* the payload of this cycle does not pass check_response
Invalid == Fetched /\ check_response(answer.value).exc # NoError

\* the payload of this cycle passes check_response and holds an item
HasItem == Fetched /\ ~Invalid /\ Len(answer.value.v["homeworks"].v) > 0

FirstItem == answer.value.v["homeworks"].v[1]

\* something in the try block of this cycle failed, other than a delivery
CycleFailed ==
    /\ pc \in {"handle", "sleep"}
    /\ \/ answer.exc # NoError
       \/ Invalid
       \/ HasItem /\ parse_status(FirstItem).exc # NoError

\* C1: when the payload of a cycle fails validation, the cursor at the end of
\* the cycle is the cursor the cycle began with.
C1_CursorKeptWhenInvalid ==
    (pc = "sleep" /\ Invalid) => current_timestamp = started

\* C2: the cursor never decreases over a cycle, whatever current_date the
\* server sends (stated for the cycles that begin and end with an integer).
C2_CursorNeverDecreases ==
    (pc = "sleep" /\ started.t = "int" /\ current_timestamp.t = "int")
        => current_timestamp.v >= started.v

\* C3: the cursor is an integer: a current_date that is no integer is
\* rejected, so a cycle in which nothing was rejected ends with an integer.
C3_CursorIsInteger ==
    (pc = "sleep" /\ ~CycleFailed) => current_timestamp.t = "int"

FailureHandled ==
    /\ Rec("ERROR", Str(error)) \in Range(log)
    /\ Len(sent) = 1
    /\ sent[1].text = "Sboy v rabote programmy: " \o Str(error)

\* C4: once the loop is entered the process never ends; every failure of a
\* cycle is logged and notified exactly once with the text "Sboy v rabote
\* programmy: {error}", and after the sleep a new request is issued.
C4_LoopNeverStops ==
    /\ [](polled => exit_status = Running)
    /\ [](pc = "sleep" /\ CycleFailed => error # NoError /\ FailureHandled)
    /\ (pc = "sleep") ~> (pc = "handle")

C4_Witness ==
    /\ pc = "sleep"
    /\ CycleFailed
    /\ error.type = "UnboundLocalError"
    /\ Len(sent) = 1

\* C5: send_message returns normally whatever the client does: a failed
\* delivery is logged, a failed status message is not followed by a failure
\* notification, and the cycle goes on to its sleep and the next cycle.
C5_NotifyNeverFails ==
    /\ polled => exit_status = Running
    /\ pc = "sleep" => uncaught = NoError
    /\ (pc = "sleep" /\ sent # << >>) =>
          /\ Len(sent) = 1
          /\ error = NoError <=> ~CycleFailed
          /\ ~sent[1].delivered =>
                Rec("ERROR", "Sboy pri otpravke soobshcheniya Bad Request")
                    \in Range(log)

C5_Witness ==
    /\ pc = "sleep"
    /\ ~CycleFailed
    /\ sent # << >>
    /\ ~sent[1].delivered

\* the first rule of validation that a payload breaks, 0 when it breaks none
FirstBroken(p) ==
    IF ~Truthy(p) THEN 1
    ELSE IF p.t # "dict" THEN 2
    ELSE IF Get(p, "current_date") = None THEN 3
    ELSE IF Get(p, "homeworks") = None THEN 4
    ELSE IF Get(p, "homeworks").t # "list" THEN 5
    ELSE 0

\* the failure of each rule: EmptyResponseError, SchemaTypeError,
\* MissingFieldError(current_date), MissingFieldError(homeworks), SchemaTypeError
FailureOfRule ==
    <<Raise("EmptyDictInResponseError", "Otvet ot API soderzhit pustoy slovar"),
      Raise("TypeError", "Otvet ot API ne yavlyaetsya slovarem"),
      Raise("KeyError", "Otvet ot API ne soderzhit klyuch \"current_date\""),
      Raise("KeyError", "Otvet ot API ne soderzhit klyuch \"homeworks\""),
      Raise("TypeError", "Dannye v otvete API po klyuchu \"homeworks\" ne "
                         \o "yavlyayutsya slovarem")>>

\* C6, as the claim has it: check_response reports the first rule broken, and
\* for a payload that breaks none returns the homeworks list together with
\* the next cursor.
C6_ValidateReturnsListAndCursor ==
    pc = "checked" =>
        IF FirstBroken(response) = 0
        THEN /\ answer.exc = NoError
             /\ answer.value = [homeworks |-> Get(response, "homeworks"),
                                next_cursor |-> Get(response, "current_date")]
        ELSE answer.exc = FailureOfRule[FirstBroken(response)]

\* C6, amended: check_response reports the first rule broken, and for a
\* payload that breaks none returns the homeworks list, and only that.
C6_ValidateInOrder ==
    pc = "checked" =>
        IF FirstBroken(response) = 0
        THEN /\ answer.exc = NoError
             /\ answer.value = Get(response, "homeworks")
             /\ answer.value.t = "list"
        ELSE /\ answer.exc = FailureOfRule[FirstBroken(response)]
             /\ answer.value = Unset

\* a payload that holds neither field: the rule of current_date is reported
C6_Witness ==
    /\ pc = "checked"
    /\ response = Payload(None, Absent)
    /\ answer.exc.type = "KeyError"

\* C7: for an item with a name and a known status parse_status returns
\* `Izmenilsya status proverki raboty "{name}". {verdict}`, {verdict} being the
\* phrase of HOMEWORK_VERDICTS for the status, whatever else the item holds.
C7_TranslateKnownStatus ==
    (/\ pc = "parsed"
     /\ response.t = "dict"
     /\ Get(response, "homework_name").t = "str"
     /\ Get(response, "status").t = "str"
     /\ Get(response, "status").v \in Known)
    => /\ answer.exc = NoError
       /\ answer.value =
            JStr("Izmenilsya status proverki raboty \""
                 \o Get(response, "homework_name").v \o "\". "
                 \o HOMEWORK_VERDICTS[Get(response, "status").v])

C7_Witness ==
    /\ pc = "parsed"
    /\ response = FullItem
    /\ answer.value =
         JStr("Izmenilsya status proverki raboty \"hw1\". "
              \o "Rabota vzyata na proverku revyuerom.")

\* C8: parse_status rejects an item without a name with the error of the
\* missing name, an item with a name and no status with the error of the
\* missing status, and an item with both whose status is not known with the
\* error of the unknown status; it returns no message then.
C8_TranslateRejectsMalformed ==
    (pc = "parsed" /\ response.t = "dict") =>
        LET homework_name == Get(response, "homework_name")
            status == Get(response, "status")
        IN  /\ homework_name = None =>
                 answer = Raised(Raise("KeyError",
                     "Slovar s domashney rabotoy ne soderzhit klyuch "
                     \o "\"homework_name\""), << >>)
            /\ (homework_name # None /\ status = None) =>
                 answer = Raised(Raise("KeyError",
                     "Slovar s domashney rabotoy ne soderzhit klyuch "
                     \o "\"status\""), << >>)
            /\ (/\ homework_name # None
                /\ status # None
                /\ ~(status.t = "str" /\ status.v \in Known)) =>
                 answer = Raised(Raise("KeyError",
                     "Nedokumentirovannyy status domashney raboty"), << >>)

\* C9: a missing configuration value ends the process at startup with a
\* critical log record, one notification and an error status, before any
\* request; with the three values present the process never ends.
C9_OnlyMissingConfigurationIsFatal ==
    /\ (~check_tokens /\ pc # "start") =>
          /\ pc = "exited"
          /\ Rec("CRITICAL", MISSING) \in Range(log)
          /\ Len(sent) = 1
          /\ exit_status.t = "exit"
          /\ exit_status.code # 0
          /\ ~polled
    /\ check_tokens => exit_status = Running

\* C10: when the request fails, get_api_answer raises the failure of the
\* transport, and does not go on to read the response that does not exist.
C10_TransportErrorSurfaces ==
    (pc = "handle" /\ net.exc # NoError) =>
        /\ answer.exc.type = net.exc.type
        /\ answer.exc # UnboundHomeworks

\* what get_api_answer raises for a response whose status is not OK: the
\* status code and the headers are in its text
StatusCodeErrorOf(n) ==
    Raise("StatusCodeError",
          "Kod HTTP otveta pri zaprose k API - " \o ToString(n.status_code)
          \o " Headers pri zaprose k API - \"" \o n.headers \o "\"")

\* C11, as the claim has it: get_api_answer returns the body of a response
\* with status OK that decodes to a map, raises StatusCodeError for another
\* status and the decode error for every other body, a list or a scalar too.
C11_FetchReturnsMapsOnly ==
    (pc = "handle" /\ net.exc = NoError) =>
        IF net.status_code # OK THEN answer.exc = StatusCodeErrorOf(net)
        ELSE IF net.body = Undecodable \/ net.body.t # "dict"
        THEN answer.exc.type = "JSONError"
        ELSE answer.exc = NoError /\ answer.value = net.body

\* C11, amended: get_api_answer returns, unmodified, the body of a response
\* with status OK that decodes, whatever it decodes to; it raises
\* StatusCodeError for another status and the decode error for a body that
\* does not decode; it returns in no other case.
C11_FetchReturnsDecodedBody ==
    pc = "handle" =>
        /\ net.exc = NoError =>
              IF net.status_code # OK THEN answer.exc = StatusCodeErrorOf(net)
              ELSE IF net.body = Undecodable
              THEN answer.exc.type = "JSONError"
              ELSE answer.exc = NoError /\ answer.value = net.body
        /\ answer.exc = NoError =>
              /\ net.exc = NoError
              /\ net.status_code = OK
              /\ net.body # Undecodable

\* a body that is a list is returned as it is
C11_Witness ==
    /\ pc = "handle"
    /\ net.status_code = OK
    /\ net.body = JList(<<Item(JStr("hw1"), JStr("approved"))>>)
    /\ answer.exc = NoError
    /\ answer.value = net.body

\* the request of this cycle did not give a payload
FetchFailed ==
    /\ pc \in {"handle", "sleep"}
    /\ \/ net.exc # NoError
       \/ net.status_code # OK
       \/ net.body = Undecodable

\* C12: a cycle whose request fails (transport, status, decoding) keeps the
\* cursor, attempts one failure notification, sleeps, and the next request
\* carries the same cursor.
C12_FetchFailureKeepsCursor ==
    [][/\ (pc = "handle" /\ FetchFailed) =>
             /\ pc' = "sleep"
             /\ current_timestamp' = started
             /\ error' = answer.exc
             /\ error' # NoError
             /\ Len(sent') = 1
             /\ sent'[1].text = "Sboy v rabote programmy: " \o Str(answer.exc)
             /\ uncaught' = NoError
       /\ (pc = "sleep" /\ FetchFailed) =>
             /\ pc' = "poll"
             /\ slept' = RETRY_PERIOD
             /\ current_timestamp' = started
       /\ pc = "poll" => net'.params = [from_date |-> current_timestamp]
      ]_vars

C12_Witness ==
    /\ pc = "sleep"
    /\ net.status_code = 500
    /\ error.type = "StatusCodeError"
    /\ Len(sent) = 1
    /\ current_timestamp = started

\* the texts parse_status can return
StatusTexts ==
    {parse_status(i).value.v :
        i \in {j \in Items \cup TailItems : parse_status(j).exc = NoError}}

\* a message about a status was handed to send_message in this cycle
StatusChangeSent == \E i \in 1..Len(sent) : sent[i].text \in StatusTexts

\* the message about a failure was handed to send_message in this cycle
FailureSent ==
    /\ error # NoError
    /\ \E i \in 1..Len(sent) : sent[i].text = FAILURE \o Str(error)

NoNewStatus == Rec("DEBUG", "V otvete otstutvuyut novye statusy proverki")

\* how many records of the log are r
RECURSIVE Count(_, _)
Count(r, records) ==
    IF records = << >> THEN 0
    ELSE (IF Head(records) = r THEN 1 ELSE 0) + Count(r, Tail(records))

\* C13, as the claim has it: after a cycle whose payload passes validation the
\* cursor is the payload's current_date and a status message is sent exactly
\* when homeworks is not empty; with an empty homeworks nothing is sent and
\* "no new status" is logged.
C13_NotifiesIffNonEmpty ==
    (pc = "sleep" /\ Fetched /\ ~Invalid) =>
        /\ current_timestamp = Get(answer.value, "current_date")
        /\ StatusChangeSent <=> HasItem
        /\ ~HasItem => sent = << >> /\ NoNewStatus \in Range(log)

\* C13, amended: after a cycle whose payload passes validation the cursor is
\* the payload's current_date; a status message is sent exactly when homeworks
\* is not empty and its first item translates; when the first item does not
\* translate the one message sent is the failure message; with an empty
\* homeworks nothing is sent and "no new status" is logged, once, and it is
\* logged in no other case.
C13_NotifiesIffFirstTranslates ==
    (pc = "sleep" /\ Fetched /\ ~Invalid) =>
        /\ current_timestamp = Get(answer.value, "current_date")
        /\ StatusChangeSent <=> (HasItem /\ parse_status(FirstItem).exc = NoError)
        /\ (HasItem /\ parse_status(FirstItem).exc # NoError) =>
              /\ Len(sent) = 1
              /\ FailureSent
              /\ error = parse_status(FirstItem).exc
        /\ ~HasItem =>
              /\ sent = << >>
              /\ error = NoError
              /\ Count(NoNewStatus, log) = 1
        /\ HasItem => Count(NoNewStatus, log) = 0

C13_Witness ==
    /\ pc = "sleep"
    /\ HasItem
    /\ FirstItem = FullItem
    /\ Len(sent) = 1
    /\ sent[1].text = StatusMessage(JStr("hw1"), JStr(HOMEWORK_VERDICTS["reviewing"]))
    /\ current_timestamp = JInt(1)
    /\ started = JInt(0)

\* C14: of a validated homeworks of any length only the first item is
\* translated, once: the message, the error and the cursor of the cycle are
\* those of the first item, whatever the items after it are, and at most one
\* status message is sent.
C14_OnlyFirstItemCounts ==
    (pc = "sleep" /\ HasItem) =>
        LET p == parse_status(FirstItem) IN
        /\ current_timestamp = Get(answer.value, "current_date")
        /\ Len(sent) = 1
        /\ Count(Rec("INFO", "Status proverki raboty poluchen"), log)
              = (IF p.exc = NoError THEN 1 ELSE 0)
        /\ IF p.exc = NoError
           THEN error = NoError /\ sent[1].text = p.value.v
           ELSE error = p.exc /\ sent[1].text = FAILURE \o Str(p.exc)

\* a good first item followed by an item of an unknown status
C14_Witness ==
    /\ pc = "sleep"
    /\ HasItem
    /\ answer.value.v["homeworks"].v =
          <<Item(JStr("hw1"), JStr("approved")), Item(JStr("hw2"), JStr("expelled"))>>
    /\ error = NoError
    /\ Len(sent) = 1
    /\ sent[1].text = parse_status(Item(JStr("hw1"), JStr("approved"))).value.v

\* the three outcomes of a cycle
SentStatusChange ==
    /\ Len(sent) = 1
    /\ StatusChangeSent
    /\ error = NoError
    /\ Count(NoNewStatus, log) = 0

LoggedNoNewStatus ==
    /\ sent = << >>
    /\ error = NoError
    /\ Count(NoNewStatus, log) = 1

SentFailure ==
    /\ Len(sent) = 1
    /\ FailureSent
    /\ ~StatusChangeSent
    /\ Count(NoNewStatus, log) = 0

\* C16: every cycle ends in exactly one of three outcomes: one status message
\* handed to send_message, "no new status" logged and nothing sent, or one
\* failure message handed to send_message; send_message is called at most
\* once in a cycle.
C16_OneOutcomePerCycle ==
    pc = "sleep" =>
        /\ Len(sent) <= 1
        /\ SentStatusChange \/ LoggedNoNewStatus \/ SentFailure
        /\ ~(SentStatusChange /\ LoggedNoNewStatus)
        /\ ~(SentStatusChange /\ SentFailure)
        /\ ~(LoggedNoNewStatus /\ SentFailure)

\* the status message was refused by Telegram, and no failure message follows
C16_Witness ==
    /\ pc = "sleep"
    /\ SentStatusChange
    /\ ~sent[1].delivered

\* C17: every cycle, failed or not, ends with one sleep of RETRY_PERIOD, and
\* between two requests there is a whole sleep.
C17_OneSleepPerCycle ==
    [][/\ pc = "handle" => pc' = "sleep"
       /\ pc = "sleep" => slept = 0 /\ slept' = RETRY_PERIOD
       /\ pc' = "handle" =>
             /\ pc = "poll"
             /\ polled => slept = RETRY_PERIOD
             /\ slept' = 0
      ]_vars

\* a second request is about to be made after a failed cycle's sleep
C17_Witness ==
    /\ pc = "poll"
    /\ polled
    /\ slept = RETRY_PERIOD
    /\ current_timestamp = None

\* C18: a cycle whose request and validation succeed and whose first item
\* does not translate leaves the cursor as it was at the start of the cycle.
C18_CursorKeptWhenTranslateFails ==
    (pc = "sleep" /\ HasItem /\ parse_status(FirstItem).exc.type = "KeyError") =>
        current_timestamp = started

\* C19: the cursor is assigned once in a cycle, after the request returns and
\* before validation: after a cycle whose request returned a dict the cursor
\* is the dict's current_date (None when there is none), after any other
\* cycle it is what it was at the start; no other step changes it.
C19_CursorSetRightAfterFetch ==
    [][/\ pc = "handle" =>
             current_timestamp' =
                IF answer.exc = NoError /\ answer.value.t = "dict"
                THEN Get(answer.value, "current_date")
                ELSE current_timestamp
       /\ pc \in {"poll", "sleep"} => current_timestamp' = current_timestamp
       /\ pc = "poll" => started' = current_timestamp
      ]_vars

\* validation refused the empty dict, and the cursor is None all the same
C19_Witness ==
    /\ pc = "sleep"
    /\ answer.exc = NoError
    /\ answer.value = EmptyDict
    /\ error.type = "EmptyDictInResponseError"
    /\ current_timestamp = None
    /\ started = JInt(0)

====
